---------------------------- MODULE Spec2Model ----------------------------
(***************************************************************************)
(* A model of github.com/midbel/sdp (src/sdp.go): the table-driven SDP     *)
(* parser Parse, the serializer File.Dump / File.DumpTo and the helpers of *)
(* MediaInfo.                                                              *)
(*                                                                         *)
(* Go strings are TLA+ strings; s[i:j] is SubSeq(s, i+1, j).  Go's int64   *)
(* and time.Time values do not fit TLC's 32-bit integers, so an int64 is a *)
(* record [neg, mag] whose magnitude is a sequence of decimal digits       *)
(* (most significant first, no leading zero, zero = << >>).                *)
(***************************************************************************)
EXTENDS Integers, Sequences, FiniteSets, TLC

-----------------------------------------------------------------------------
(* Strings                                                                 *)

Min(a, b) == IF a < b THEN a ELSE b

CharAt(s, i) == SubSeq(s, i, i)

\* strings.Index(s, c) for a one-byte c: 0-based, -1 when absent.
Index(s, c) ==
  IF \E i \in 1..Len(s) : CharAt(s, i) = c
  THEN (CHOOSE i \in 1..Len(s) :
          CharAt(s, i) = c /\ \A j \in 1..(i - 1) : CharAt(s, j) # c) - 1
  ELSE -1

\* Go's s[i:]
From(s, i) == SubSeq(s, i + 1, Len(s))

\* Go's s[:i]
Upto(s, i) == SubSeq(s, 1, i)

HasPrefixStr(s, p) == Len(s) >= Len(p) /\ SubSeq(s, 1, Len(p)) = p

RECURSIVE TrimRight(_)
TrimRight(s) ==
  IF s # "" /\ CharAt(s, Len(s)) \in {"\r", "\n"}
  THEN TrimRight(SubSeq(s, 1, Len(s) - 1))
  ELSE s

RECURSIVE split(_)
split(line) ==
  LET x == Index(line, " ")
  IN  IF x < 0 THEN <<line>>
      ELSE <<Upto(line, x)>> \o split(From(line, x + 1))

-----------------------------------------------------------------------------
(* Integers wider than TLC's                                               *)

Digits == "0123456789"

IsDigit(c) == Index(Digits, c) >= 0

DigitVal(c) == Index(Digits, c)

DigitChar(d) == CharAt(Digits, d + 1)

RECURSIVE NatNorm(_)
NatNorm(a) == IF a # << >> /\ Head(a) = 0 THEN NatNorm(Tail(a)) ELSE a

\* The digits of a string of decimal digits.
NatOfStr(s) ==
  IF s = "" THEN << >>
  ELSE NatNorm(<<DigitVal(CharAt(s, 1))>> \o
               [i \in 1..(Len(s) - 1) |-> DigitVal(CharAt(s, i + 1))])

RECURSIVE NatStr(_)
NatStr(a) == IF a = << >> THEN "" ELSE DigitChar(Head(a)) \o NatStr(Tail(a))

RECURSIVE LexLess(_, _)
LexLess(a, b) ==
  /\ a # << >>
  /\ \/ Head(a) < Head(b)
     \/ Head(a) = Head(b) /\ LexLess(Tail(a), Tail(b))

NatLess(a, b) == Len(a) < Len(b) \/ (Len(a) = Len(b) /\ LexLess(a, b))

NatLeq(a, b) == a = b \/ NatLess(a, b)

Front(a) == SubSeq(a, 1, Len(a) - 1)

Last(a) == a[Len(a)]

RECURSIVE AddCarry(_, _, _)
AddCarry(a, b, c) ==
  IF a = << >> /\ b = << >> THEN (IF c = 0 THEN << >> ELSE <<c>>)
  ELSE LET x == IF a = << >> THEN 0 ELSE Last(a)
           y == IF b = << >> THEN 0 ELSE Last(b)
           s == x + y + c
       IN  Append(AddCarry(IF a = << >> THEN a ELSE Front(a),
                           IF b = << >> THEN b ELSE Front(b),
                           s \div 10),
                  s % 10)

NatAdd(a, b) == NatNorm(AddCarry(a, b, 0))

\* a - b for a >= b
RECURSIVE SubBorrow(_, _, _)
SubBorrow(a, b, c) ==
  IF a = << >> THEN << >>
  ELSE LET y == IF b = << >> THEN 0 ELSE Last(b)
           d == Last(a) - y - c
       IN  Append(SubBorrow(Front(a), IF b = << >> THEN b ELSE Front(b),
                            IF d < 0 THEN 1 ELSE 0),
                  IF d < 0 THEN d + 10 ELSE d)

NatSub(a, b) == NatNorm(SubBorrow(a, b, 0))

RECURSIVE NatToInt(_)
NatToInt(a) == IF a = << >> THEN 0 ELSE NatToInt(Front(a)) * 10 + Last(a)

RECURSIVE NatOfInt(_)
NatOfInt(n) == IF n = 0 THEN << >> ELSE Append(NatOfInt(n \div 10), n % 10)

I64(neg, mag) == [neg |-> neg /\ mag # << >>, mag |-> mag]

Zero64 == I64(FALSE, << >>)

Num(s) ==
  IF s # "" /\ CharAt(s, 1) = "-" THEN I64(TRUE, NatOfStr(From(s, 1)))
  ELSE I64(FALSE, NatOfStr(s))

IntNeg(x) == I64(~x.neg, x.mag)

IntAdd(x, y) ==
  IF x.neg = y.neg THEN I64(x.neg, NatAdd(x.mag, y.mag))
  ELSE IF NatLess(x.mag, y.mag) THEN I64(y.neg, NatSub(y.mag, x.mag))
  ELSE I64(x.neg, NatSub(x.mag, y.mag))

IntSub(x, y) == IntAdd(x, IntNeg(y))

IntLess(x, y) ==
  IF x.neg # y.neg THEN x.neg
  ELSE IF x.neg THEN NatLess(y.mag, x.mag)
  ELSE NatLess(x.mag, y.mag)

MaxInt64 == Num("9223372036854775807")

MinInt64 == Num("-9223372036854775808")

TwoTo64 == Num("18446744073709551616")

\* Two's-complement wrap-around of a 64-bit result.
Wrap64(x) ==
  IF IntLess(MaxInt64, x) THEN IntSub(x, TwoTo64)
  ELSE IF IntLess(x, MinInt64) THEN IntAdd(x, TwoTo64)
  ELSE x

-----------------------------------------------------------------------------
(* strconv                                                                 *)

MaxUint(bitSize) ==
  IF bitSize = 16 THEN NatOfStr("65535") ELSE NatOfStr("18446744073709551615")

Cutoff(bitSize) ==
  IF bitSize = 16 THEN NatOfStr("32768") ELSE NatOfStr("9223372036854775808")

\* The digit loop of strconv.ParseUint(s, 10, bitSize), n being the value so
\* far: the first byte that is no digit, or the first digit that takes the
\* value over the maximum, ends it.
RECURSIVE ParseUintLoop(_, _, _)
ParseUintLoop(s, n, bitSize) ==
  IF s = "" THEN [val |-> n, err |-> "nil"]
  ELSE IF ~IsDigit(CharAt(s, 1)) THEN [val |-> << >>, err |-> "strconv.ErrSyntax"]
  ELSE LET n1 == NatNorm(Append(n, DigitVal(CharAt(s, 1))))
       IN  IF NatLess(MaxUint(bitSize), n1)
           THEN [val |-> MaxUint(bitSize), err |-> "strconv.ErrRange"]
           ELSE ParseUintLoop(From(s, 1), n1, bitSize)

ParseUint(s, bitSize) ==
  IF s = "" THEN [val |-> << >>, err |-> "strconv.ErrSyntax"]
  ELSE ParseUintLoop(s, << >>, bitSize)

ParseInt(s, bitSize) ==
  IF s = "" THEN [val |-> Zero64, err |-> "strconv.ErrSyntax"]
  ELSE LET neg  == CharAt(s, 1) = "-"
           body == IF CharAt(s, 1) \in {"+", "-"} THEN From(s, 1) ELSE s
           un   == ParseUint(body, bitSize)
       IN  IF un.err = "strconv.ErrSyntax" THEN [val |-> Zero64, err |-> un.err]
           ELSE IF ~neg /\ NatLeq(Cutoff(bitSize), un.val)
             THEN [val |-> I64(FALSE, NatSub(Cutoff(bitSize), <<1>>)),
                   err |-> "strconv.ErrRange"]
           ELSE IF neg /\ NatLess(Cutoff(bitSize), un.val)
             THEN [val |-> I64(TRUE, Cutoff(bitSize)), err |-> "strconv.ErrRange"]
           ELSE [val |-> I64(neg, un.val), err |-> "nil"]

\* strconv.Atoi on a 64-bit platform: ParseInt(s, 10, 0) converted to int.
Atoi(s) == ParseInt(s, 64)

FormatInt(x) ==
  IF x.mag = << >> THEN "0"
  ELSE (IF x.neg THEN "-" ELSE "") \o NatStr(x.mag)

FormatUint(n) == IF n = 0 THEN "0" ELSE NatStr(NatOfInt(n))

-----------------------------------------------------------------------------
(* The data model                                                          *)

ZeroConnInfo == [NetType |-> "", AddrType |-> "", Addr |-> "", TTL |-> Zero64]

IsZero(c) == c.NetType = "" /\ c.AddrType = "" /\ c.Addr = ""

ZeroSession ==
  [User |-> "", ID |-> Zero64, Ver |-> Zero64, ConnInfo |-> ZeroConnInfo,
   Name |-> "", Info |-> "", URI |-> ""]

ZeroMediaInfo ==
  [Media |-> "", Port |-> 0, Count |-> 0, Proto |-> "", Attrs |-> << >>,
   Info |-> "", ConnInfo |-> ZeroConnInfo, Bandwidth |-> << >>,
   Attributes |-> << >>]

ZeroFile ==
  [Version |-> Zero64, Session |-> ZeroSession, Email |-> << >>,
   Phone |-> << >>, ConnInfo |-> ZeroConnInfo, Bandwidth |-> << >>,
   Attributes |-> << >>, Intervals |-> << >>, Medias |-> << >>]

\* time.Time{} as Unix seconds: January 1, year 1, 00:00:00 UTC.
ZeroTime == Num("-62135596800")

TimeIsZero(t) == t = ZeroTime

IsUnbound(i) == TimeIsZero(i.Ends)

IsPermanent(i) == TimeIsZero(i.Starts) /\ TimeIsZero(i.Ends)

epoch == Num("2208988800")

-----------------------------------------------------------------------------
(* The line cursor: rs is the unread rest of the bufio.Reader               *)

\* rs.ReadString('\n'): up to and including the first "\n", or all that is
\* left (with io.EOF, which checkLine drops).
ReadString(rs) ==
  LET x == Index(rs, "\n")
  IN  IF x < 0 THEN [line |-> rs, err |-> "io.EOF", rs |-> ""]
      ELSE [line |-> Upto(rs, x + 1), err |-> "nil", rs |-> From(rs, x + 1)]

hasPrefix(rs, prefix) == SubSeq(rs, 1, Min(Len(prefix), Len(rs))) = prefix

\* checkLine without its "&& !errors.Is(err, io.EOF)": the end of the input
\* is returned as io.EOF, which ends the loop of Parse without an error.
checkLineEOF(rs, prefix) ==
  LET r    == ReadString(rs)
      line == TrimRight(r.line)
      p    == prefix \o "="
  IN  IF r.err # "nil" THEN [line |-> "", err |-> r.err, rs |-> r.rs]
      ELSE IF ~HasPrefixStr(line, p)
      THEN [line |-> "", err |-> "ErrSyntax", rs |-> r.rs]
      ELSE [line |-> From(line, Len(p)), err |-> "nil", rs |-> r.rs]

checkLine(rs, prefix) ==
  LET r    == ReadString(rs)
      line == TrimRight(r.line)
      p    == prefix \o "="
  IN  IF ~HasPrefixStr(line, p)
      THEN [line |-> "", err |-> "ErrSyntax", rs |-> r.rs]
      ELSE [line |-> From(line, Len(p)), err |-> "nil", rs |-> r.rs]

\* setString looking at the line without taking it from the reader.
setStringPeek(rs, prefix, required) ==
  IF ~required /\ ~hasPrefix(rs, prefix)
  THEN [line |-> "", err |-> "nil", rs |-> rs]
  ELSE [line |-> checkLine(rs, prefix).line, err |-> checkLine(rs, prefix).err,
        rs |-> rs]

setString(rs, prefix, required) ==
  IF ~required /\ ~hasPrefix(rs, prefix)
  THEN [line |-> "", err |-> "nil", rs |-> rs]
  ELSE checkLine(rs, prefix)

RECURSIVE setArrayLoop(_, _, _)
setArrayLoop(rs, prefix, arr) ==
  IF ~hasPrefix(rs, prefix) THEN [arr |-> arr, err |-> "nil", rs |-> rs]
  ELSE LET c == checkLine(rs, prefix)
       IN  IF c.err # "nil" THEN [arr |-> << >>, err |-> c.err, rs |-> c.rs]
           ELSE setArrayLoop(c.rs, prefix, Append(arr, c.line))

setArray(rs, prefix) == setArrayLoop(rs, prefix, << >>)

-----------------------------------------------------------------------------
(* Micro-grammars                                                          *)

validAddrType(str, star) ==
  IF str \in {"IP4", "IP6"} THEN "nil"
  ELSE IF ~star /\ str # "*" THEN "ErrInvalid"
  ELSE "nil"

validNetType(str) == IF str = "IN" THEN "nil" ELSE "ErrInvalid"

validModeType(str) == IF str \in {"incl", "excl"} THEN "nil" ELSE "ErrInvalid"

parseConnectionInfo(parts) ==
  IF Len(parts) # 3 THEN [ci |-> ZeroConnInfo, err |-> "ErrSyntax"]
  ELSE IF validNetType(parts[1]) # "nil"
    THEN [ci |-> ZeroConnInfo, err |-> validNetType(parts[1])]
  ELSE IF validAddrType(parts[2], FALSE) # "nil"
    THEN [ci |-> ZeroConnInfo, err |-> validAddrType(parts[2], FALSE)]
  ELSE LET ci == [NetType |-> parts[1], AddrType |-> parts[2],
                  Addr |-> parts[3], TTL |-> Zero64]
           x  == Index(ci.Addr, "/")
           n  == ParseInt(From(ci.Addr, x + 1), 16)
       IN  IF x > 0
           THEN IF n.err # "nil"
                THEN [ci |-> [ci EXCEPT !.TTL = n.val], err |-> n.err]
                ELSE [ci |-> [ci EXCEPT !.TTL = n.val, !.Addr = Upto(ci.Addr, x)],
                      err |-> "nil"]
           ELSE [ci |-> ci, err |-> "nil"]

\* The loop of parseAttributeLines; atb is the Attribute it fills line after
\* line, a line without ":" setting its Name only.
RECURSIVE parseAttributeLoop(_, _, _, _)
parseAttributeLoop(rs, prefix, arr, atb) ==
  IF ~hasPrefix(rs, prefix) THEN [arr |-> arr, err |-> "nil", rs |-> rs]
  ELSE LET c == checkLine(rs, prefix)
           x == Index(c.line, ":")
           named  == [atb EXCEPT !.Name = c.line]
           filled == [Name |-> Upto(c.line, x), Value |-> From(c.line, x + 1)]
       IN  IF c.err # "nil" THEN [arr |-> << >>, err |-> c.err, rs |-> c.rs]
           ELSE IF x < 0 THEN parseAttributeLoop(c.rs, prefix, arr, named)
           ELSE parseAttributeLoop(c.rs, prefix, Append(arr, filled), filled)

\* parseAttributeLines without its "continue": a line without ":" is
\* appended too, with the Value of the line before it.
RECURSIVE parseAttributeLoopAppend(_, _, _, _)
parseAttributeLoopAppend(rs, prefix, arr, atb) ==
  IF ~hasPrefix(rs, prefix) THEN [arr |-> arr, err |-> "nil", rs |-> rs]
  ELSE LET c == checkLine(rs, prefix)
           x == Index(c.line, ":")
           named  == [atb EXCEPT !.Name = c.line]
           filled == [Name |-> Upto(c.line, x), Value |-> From(c.line, x + 1)]
       IN  IF c.err # "nil" THEN [arr |-> << >>, err |-> c.err, rs |-> c.rs]
           ELSE IF x < 0
             THEN parseAttributeLoopAppend(c.rs, prefix, Append(arr, named), named)
           ELSE parseAttributeLoopAppend(c.rs, prefix, Append(arr, filled), filled)

parseAttributeLinesAppend(rs, prefix) ==
  parseAttributeLoopAppend(rs, prefix, << >>, [Name |-> "", Value |-> ""])

parseAttributeLines(rs, prefix) ==
  parseAttributeLoop(rs, prefix, << >>, [Name |-> "", Value |-> ""])

\* parseBandwidthLines with the test of its split reduced to "x < 0": an
\* empty type or an empty value goes on to strconv.ParseInt.
RECURSIVE parseBandwidthLoopLax(_, _, _)
parseBandwidthLoopLax(rs, prefix, arr) ==
  IF ~hasPrefix(rs, prefix) THEN [arr |-> arr, err |-> "nil", rs |-> rs]
  ELSE LET c == checkLine(rs, prefix)
           x == Index(c.line, ":")
           n == ParseInt(From(c.line, x + 1), 64)
       IN  IF c.err # "nil" THEN [arr |-> << >>, err |-> c.err, rs |-> c.rs]
           ELSE IF x < 0 THEN [arr |-> << >>, err |-> "ErrSyntax", rs |-> c.rs]
           ELSE IF n.err # "nil" THEN [arr |-> << >>, err |-> n.err, rs |-> c.rs]
           ELSE parseBandwidthLoopLax(c.rs, prefix,
                  Append(arr, [Type |-> Upto(c.line, x), Value |-> n.val]))

parseBandwidthLinesLax(rs, prefix) == parseBandwidthLoopLax(rs, prefix, << >>)

RECURSIVE parseBandwidthLoop(_, _, _)
parseBandwidthLoop(rs, prefix, arr) ==
  IF ~hasPrefix(rs, prefix) THEN [arr |-> arr, err |-> "nil", rs |-> rs]
  ELSE LET c == checkLine(rs, prefix)
           x == Index(c.line, ":")
           n == ParseInt(From(c.line, x + 1), 64)
       IN  IF c.err # "nil" THEN [arr |-> << >>, err |-> c.err, rs |-> c.rs]
           ELSE IF x <= 0 \/ x >= Len(c.line) - 1
             THEN [arr |-> << >>, err |-> "ErrSyntax", rs |-> c.rs]
           ELSE IF n.err # "nil" THEN [arr |-> << >>, err |-> n.err, rs |-> c.rs]
           ELSE parseBandwidthLoop(c.rs, prefix,
                  Append(arr, [Type |-> Upto(c.line, x), Value |-> n.val]))

parseBandwidthLines(rs, prefix) == parseBandwidthLoop(rs, prefix, << >>)

\* The closure parse of parseInterval: an NTP number to a time.Time.
parseTime(str) ==
  LET n == ParseInt(str, 64)
  IN  IF n.err # "nil" \/ n.val = Zero64 THEN [t |-> ZeroTime, err |-> n.err]
      ELSE [t |-> Wrap64(IntSub(n.val, epoch)), err |-> "nil"]

findAttributes(name, attrs) ==
  IF \E i \in 1..Len(attrs) : attrs[i].Name = name
  THEN [a  |-> attrs[CHOOSE i \in 1..Len(attrs) :
                       /\ attrs[i].Name = name
                       /\ \A j \in 1..(i - 1) : attrs[j].Name # name],
        ok |-> TRUE]
  ELSE [a |-> [Name |-> "", Value |-> ""], ok |-> FALSE]

ZeroSourceInfo ==
  [Mode |-> "", NetType |-> "", AddrType |-> "", Addr |-> "", List |-> << >>]

\* An index past the end of parts is a run-time panic.
parseSourceInfo(line) ==
  LET parts == split(line)
      Fail(e) == [info |-> ZeroSourceInfo, err |-> e]
  IN  IF Len(line) < 5 THEN Fail("ErrSyntax")
      ELSE IF validModeType(parts[1]) # "nil" THEN Fail("ErrInvalid")
      ELSE IF Len(parts) < 2 THEN Fail("panic")
      ELSE IF validNetType(parts[2]) # "nil" THEN Fail("ErrInvalid")
      ELSE IF Len(parts) < 3 THEN Fail("panic")
      ELSE IF validAddrType(parts[3], TRUE) # "nil" THEN Fail("ErrInvalid")
      ELSE IF Len(parts) < 4 THEN Fail("panic")
      ELSE [info |-> [Mode |-> parts[1], NetType |-> parts[2],
                      AddrType |-> parts[3], Addr |-> parts[4],
                      List |-> SubSeq(parts, 5, Len(parts))],
            err |-> "nil"]

\* File.SourceFilter and MediaInfo.SourceFilter, on the Attributes of either.
SourceFilter(attrs) ==
  LET a == findAttributes("source-filter", attrs)
  IN  IF ~a.ok THEN [info |-> ZeroSourceInfo, err |-> "source-filter not set"]
      ELSE parseSourceInfo(a.a.Value)

-----------------------------------------------------------------------------
(* The handlers of the session table: each takes the File under            *)
(* construction and the reader and returns both with its error             *)

Result(f, rs, err) == [file |-> f, rs |-> rs, err |-> err]

\* parseVersion without its test of file.Version.
parseVersionUnchecked(f, rs, prefix) ==
  LET c == checkLine(rs, prefix)
      n == Atoi(c.line)
  IN  IF c.err # "nil" THEN Result(f, c.rs, c.err)
      ELSE Result([f EXCEPT !.Version = n.val], c.rs, n.err)

parseVersion(f, rs, prefix) ==
  LET c == checkLine(rs, prefix)
      n == Atoi(c.line)
  IN  IF c.err # "nil" THEN Result(f, c.rs, c.err)
      ELSE Result([f EXCEPT !.Version = n.val], c.rs,
                  IF n.val # Zero64 THEN "ErrInvalid" ELSE n.err)

parseOrigin(f, rs, prefix) ==
  LET c     == checkLine(rs, prefix)
      parts == split(c.line)
      f1    == IF parts[1] # "-" THEN [f EXCEPT !.Session.User = parts[1]] ELSE f
      id    == ParseInt(parts[2], 64)
      f2    == [f1 EXCEPT !.Session.ID = id.val]
      ver   == ParseInt(parts[3], 64)
      f3    == [f2 EXCEPT !.Session.Ver = ver.val]
      conn  == parseConnectionInfo(SubSeq(parts, 4, Len(parts)))
  IN  IF c.err # "nil" THEN Result(f, c.rs, c.err)
      ELSE IF Len(parts) # 6 THEN Result(f, c.rs, "ErrSyntax")
      ELSE IF id.err # "nil" THEN Result(f2, c.rs, "ErrSyntax")
      ELSE IF ver.err # "nil" THEN Result(f3, c.rs, "ErrSyntax")
      ELSE Result([f3 EXCEPT !.Session.ConnInfo = conn.ci], c.rs, conn.err)

parseName(f, rs, prefix) ==
  LET c == setString(rs, prefix, TRUE)
  IN  Result([f EXCEPT !.Session.Name = c.line], c.rs,
             IF c.err = "nil" /\ c.line = "" THEN "empty session name" ELSE c.err)

parseInfo(f, rs, prefix) ==
  LET c == setString(rs, prefix, FALSE)
  IN  Result([f EXCEPT !.Session.Info = c.line], c.rs, c.err)

parseURI(f, rs, prefix) ==
  LET c == setString(rs, prefix, FALSE)
  IN  Result([f EXCEPT !.Session.URI = c.line], c.rs, c.err)

parseEmail(f, rs, prefix) ==
  LET a == setArray(rs, prefix)
  IN  Result([f EXCEPT !.Email = a.arr], a.rs, a.err)

parsePhone(f, rs, prefix) ==
  LET a == setArray(rs, prefix)
  IN  Result([f EXCEPT !.Phone = a.arr], a.rs, a.err)

parseConnInfo(f, rs, prefix) ==
  LET c    == setString(rs, prefix, FALSE)
      conn == parseConnectionInfo(split(c.line))
  IN  IF c.err # "nil" \/ c.line = "" THEN Result(f, c.rs, c.err)
      ELSE Result([f EXCEPT !.ConnInfo = conn.ci], c.rs, conn.err)

parseBandwidth(f, rs, prefix) ==
  LET a == parseBandwidthLines(rs, prefix)
  IN  Result([f EXCEPT !.Bandwidth = a.arr], a.rs, a.err)

RECURSIVE parseIntervalLoop(_, _, _)
parseIntervalLoop(f, rs, prefix) ==
  IF ~hasPrefix(rs, prefix) THEN Result(f, rs, "nil")
  ELSE LET c      == checkLine(rs, prefix)
           parts  == split(c.line)
           starts == parseTime(parts[1])
           ends   == parseTime(parts[2])
       IN  IF c.err # "nil" THEN Result(f, c.rs, c.err)
           ELSE IF Len(parts) # 2 THEN Result(f, c.rs, "ErrSyntax")
           ELSE IF starts.err # "nil" THEN Result(f, c.rs, starts.err)
           ELSE IF ends.err # "nil" THEN Result(f, c.rs, ends.err)
           ELSE parseIntervalLoop(
                  [f EXCEPT !.Intervals =
                     Append(@, [Starts |-> starts.t, Ends |-> ends.t])],
                  c.rs, prefix)

parseInterval(f, rs, prefix) == parseIntervalLoop(f, rs, prefix)

parseAttributes(f, rs, prefix) ==
  LET a == parseAttributeLines(rs, prefix)
  IN  Result([f EXCEPT !.Attributes = a.arr], a.rs, a.err)

RECURSIVE skip(_, _, _)
skip(f, rs, prefix) ==
  IF ~hasPrefix(rs, prefix) THEN Result(f, rs, "nil")
  ELSE LET c == checkLine(rs, prefix)
       IN  IF c.err # "nil" THEN Result(f, c.rs, c.err)
           ELSE skip(f, c.rs, prefix)

\* The prefixes of the table parsers, in order; slot 14 is parseMedia.
parsers == <<"v", "o", "s", "i", "u", "e", "p", "c", "b", "t", "a", "r", "z", "m">>

mediaparsers == <<"i", "c", "b", "a">>

MediaSlot == Len(parsers)

-----------------------------------------------------------------------------
(* The handlers of the media table                                         *)

MResult(m, rs, err) == [mi |-> m, rs |-> rs, err |-> err]

\* parseMediaDescription up to its loop over mediaparsers: the m= line.
parseMediaLine(line) ==
  LET parts == split(line)
      m0    == [ZeroMediaInfo EXCEPT !.Media = parts[1]]
      x     == Index(parts[2], "/")
      port  == ParseUint(IF x > 0 THEN From(parts[2], x) ELSE parts[2], 16)
      m1    == [m0 EXCEPT !.Port = NatToInt(port.val)]
      count == ParseUint(From(parts[2], x + 1), 16)
      m2    == IF x > 0 THEN [m1 EXCEPT !.Count = NatToInt(count.val)] ELSE m1
  IN  IF Len(parts) < 4 THEN [mi |-> ZeroMediaInfo, err |-> "ErrSyntax"]
      ELSE IF port.err # "nil" THEN [mi |-> m0, err |-> port.err]
      ELSE IF x > 0 /\ count.err # "nil" THEN [mi |-> m1, err |-> count.err]
      ELSE [mi |-> [m2 EXCEPT !.Proto = parts[3],
                              !.Attrs = SubSeq(parts, 4, Len(parts))],
            err |-> "nil"]

parseMediaInfo(m, rs, prefix) ==
  LET c == setString(rs, prefix, FALSE)
  IN  MResult([m EXCEPT !.Info = c.line], c.rs, c.err)

parseMediaConnInfo(m, rs, prefix) ==
  LET c    == setString(rs, prefix, FALSE)
      conn == parseConnectionInfo(split(c.line))
  IN  IF c.err # "nil" \/ c.line = "" THEN MResult(m, c.rs, c.err)
      ELSE MResult([m EXCEPT !.ConnInfo = conn.ci], c.rs, conn.err)

parseMediaBandwidth(m, rs, prefix) ==
  LET a == parseBandwidthLines(rs, prefix)
  IN  MResult([m EXCEPT !.Bandwidth = a.arr], a.rs, a.err)

parseMediaAttributes(m, rs, prefix) ==
  LET a == parseAttributeLines(rs, prefix)
  IN  MResult([m EXCEPT !.Attributes = a.arr], a.rs, a.err)

\* MediaInfo.PortRange: Port + uint16(i) is 16-bit arithmetic.
RECURSIVE PortRangeLoop(_, _, _)
PortRangeLoop(m, i, arr) ==
  IF i < m.Count
  THEN PortRangeLoop(m, i + 1, Append(arr, (m.Port + i) % 65536))
  ELSE arr

PortRange(m) == IF m.Count = 0 THEN <<m.Port>> ELSE PortRangeLoop(m, 0, << >>)

-----------------------------------------------------------------------------
(* The serializer                                                          *)

EOL == "\r\n"

writePrefix(prefix) == prefix \o "="

writeLine(line) == line \o EOL

writeConnInfo(conn, prefix) ==
  IF IsZero(conn) THEN ""
  ELSE (IF prefix THEN writePrefix("c") ELSE "")
       \o conn.NetType \o " " \o conn.AddrType \o " " \o conn.Addr
       \o (IF IntLess(Zero64, conn.TTL) THEN "/" \o FormatInt(conn.TTL) ELSE "")
       \o EOL

writeSession(sess) ==
  writePrefix("o") \o (IF sess.User = "" THEN "-" ELSE sess.User) \o " "
  \o FormatInt(sess.ID) \o " " \o FormatInt(sess.Ver) \o " "
  \o writeConnInfo(sess.ConnInfo, FALSE)
  \o writePrefix("s") \o writeLine(sess.Name)
  \o (IF sess.Info # "" THEN writePrefix("i") \o writeLine(sess.Info) ELSE "")
  \o (IF sess.URI # "" THEN writePrefix("u") \o writeLine(sess.URI) ELSE "")

RECURSIVE writeStrings(_, _)
writeStrings(prefix, arr) ==
  IF arr = << >> THEN ""
  ELSE writePrefix(prefix) \o writeLine(Head(arr)) \o writeStrings(prefix, Tail(arr))

RECURSIVE writeBandwidths(_)
writeBandwidths(bws) ==
  IF bws = << >> THEN ""
  ELSE writePrefix("b") \o Head(bws).Type \o ":" \o FormatInt(Head(bws).Value)
       \o EOL \o writeBandwidths(Tail(bws))

RECURSIVE writeAttributes(_)
writeAttributes(attrs) ==
  IF attrs = << >> THEN ""
  ELSE writePrefix("a") \o Head(attrs).Name \o ":" \o Head(attrs).Value
       \o EOL \o writeAttributes(Tail(attrs))

\* The closure convert of writeIntervals.
convert(t) ==
  IF TimeIsZero(t) THEN "0" ELSE FormatInt(Wrap64(IntAdd(t, epoch)))

RECURSIVE writeIntervals(_)
writeIntervals(is) ==
  IF is = << >> THEN ""
  ELSE writePrefix("t") \o convert(Head(is).Starts) \o " "
       \o convert(Head(is).Ends) \o EOL \o writeIntervals(Tail(is))

RECURSIVE writeTokens(_)
writeTokens(arr) ==
  IF arr = << >> THEN "" ELSE " " \o Head(arr) \o writeTokens(Tail(arr))

writeMediaInfo(m) ==
  writePrefix("m") \o m.Media \o " " \o FormatUint(m.Port)
  \o (IF m.Count > 0 THEN "/" \o FormatUint(m.Count) ELSE "")
  \o " " \o m.Proto \o writeTokens(m.Attrs) \o EOL
  \o (IF m.Info # "" THEN writePrefix("i") \o writeLine(m.Info) ELSE "")
  \o writeConnInfo(m.ConnInfo, TRUE)
  \o writeBandwidths(m.Bandwidth)
  \o writeAttributes(m.Attributes)

RECURSIVE writeMedias(_)
writeMedias(ms) ==
  IF ms = << >> THEN "" ELSE writeMediaInfo(Head(ms)) \o writeMedias(Tail(ms))

Dump(f) ==
  writePrefix("v") \o FormatInt(f.Version) \o EOL
  \o writeSession(f.Session)
  \o writeStrings("e", f.Email)
  \o writeStrings("p", f.Phone)
  \o writeConnInfo(f.ConnInfo, TRUE)
  \o writeBandwidths(f.Bandwidth)
  \o writeAttributes(f.Attributes)
  \o writeIntervals(f.Intervals)
  \o writeMedias(f.Medias)

-----------------------------------------------------------------------------
(* The inputs                                                              *)

\* The number of lines after the three mandatory ones in a generated input.
MaxBody == 2

\* First, second and third lines: well-formed and malformed v=, o=, s=.
VersionLines == {"v=0", "v=-0", "v=1", "v=abc", "v=99999999999999999999", "s=x"}

OriginLines ==
  {"o=- 1 1 IN IP4 h", "o=u 12 3 IN IP6 h/127", "o=- 1 1 IN IP4",
   "o=- 1 1 IN IP4 h x", "o=- x 1 IN IP4 h", "o=- 1 1 XX IP4 h",
   "o=- 1 1 IN IP7 h", "o=- 1 1 IN * h", "o=- 1 1 IN IP4 h/-1",
   "o=- 1 1 IN IP4 h/x", "o=", "v=0"}

NameLines == {"s=x", "s=", "i=n"}

GoodHeader == <<"v=0", "o=- 1 1 IN IP4 h", "s=x">>

\* The lines that may follow the mandatory ones.
BodyLines ==
  {"i=n", "u=w", "e=m", "p=7",
   "c=IN IP4 g/127", "c=IN IP4 g/-1", "c=IN * g", "c=IN IP7 g", "c=IN IP4 g/x",
   "b=AS:64", "b=AS:x",
   "t=0 0", "t=3034423619 0", "t=x 0",
   "a=k:w", "a=recvonly", "a=source-filter:incl IN * g s",
   "a=source-filter:excl IN IP7 g",
   "r=1", "z=2",
   "m=audio 49170 RTP/AVP 0", "m=video 5004/2 RTP/AVP 31", "m=text 9 R"}

RECURSIVE SeqsUpTo(_, _)
SeqsUpTo(S, n) ==
  IF n = 0 THEN {<< >>}
  ELSE LET shorter == SeqsUpTo(S, n - 1)
       IN  shorter \cup {Append(q, x) : q \in {r \in shorter : Len(r) = n - 1}, x \in S}

Headers ==
  {<< >>} \cup {<<v>> : v \in VersionLines}
  \cup {<<v, o>> : v \in VersionLines, o \in OriginLines}
  \cup {<<v, o, n>> : v \in VersionLines, o \in OriginLines, n \in NameLines}

Documents == Headers \cup {GoodHeader \o b : b \in SeqsUpTo(BodyLines, MaxBody)}

\* The text of a document: eol after every line, the last one only when
\* terminated.
RECURSIVE Join(_, _, _)
Join(lines, eol, terminated) ==
  IF lines = << >> THEN ""
  ELSE Head(lines)
       \o (IF Len(lines) > 1 \/ terminated THEN eol ELSE "")
       \o Join(Tail(lines), eol, terminated)

Inputs ==
  {Join(d, "\r\n", TRUE) : d \in Documents}
  \cup {Join(d, "\n", TRUE) : d \in Documents}
  \cup {Join(d, "\r\n", FALSE) : d \in Documents}

-----------------------------------------------------------------------------
(* The program: Parse(input), and on success Dump and Parse of the dump    *)

VARIABLES
  input,     \* the text given to the first Parse
  phase,     \* 1: parsing input, 2: parsing the output of Dump
  pc,        \* "parse", "parsed" (Parse has returned), "dumped"
  rs,        \* the unread rest of the reader
  slot,      \* the index in parsers of the handler to run next
  mslot,     \* inside parseMediaDescription: the index in mediaparsers, else 0
  mi,        \* the MediaInfo under construction
  file,      \* the File under construction, then returned
  err,       \* the error Parse returns
  rsBefore,  \* rs when the last handler was called
  first,     \* the File of the first Parse
  out,       \* the output of Dump
  sf,        \* the result of the last SourceFilter call
  ports      \* the result of the last PortRange call

vars ==
  <<input, phase, pc, rs, slot, mslot, mi, file, err, rsBefore, first, out,
    sf, ports>>

NoSourceInfo == [info |-> ZeroSourceInfo, err |-> "not called"]

Init ==
  /\ input \in Inputs
  /\ phase = 1
  /\ pc = "parse"
  /\ rs = input
  /\ slot = 1
  /\ mslot = 0
  /\ mi = ZeroMediaInfo
  /\ file = ZeroFile
  /\ err = "nil"
  /\ rsBefore = input
  /\ first = ZeroFile
  /\ out = ""
  /\ sf = NoSourceInfo
  /\ ports = << >>

\* The body of the loop of Parse for the handler result r: an io.EOF ends
\* the loop, any other error is returned, and after the last handler Parse
\* returns.
Handled(r) ==
  /\ file' = r.file
  /\ rs' = r.rs
  /\ rsBefore' = rs
  /\ IF r.err = "io.EOF"
     THEN pc' = "parsed" /\ err' = "nil" /\ slot' = slot
     ELSE IF r.err # "nil"
     THEN pc' = "parsed" /\ err' = r.err /\ slot' = slot
     ELSE pc' = "parse" /\ err' = "nil" /\ slot' = slot + 1
  /\ UNCHANGED <<input, phase, mslot, mi, first, out, sf, ports>>

At(k) == pc = "parse" /\ slot = k /\ mslot = 0

ParseVersion == At(1) /\ Handled(parseVersion(file, rs, parsers[1]))

ParseOrigin == At(2) /\ Handled(parseOrigin(file, rs, parsers[2]))

ParseName == At(3) /\ Handled(parseName(file, rs, parsers[3]))

ParseInfo == At(4) /\ Handled(parseInfo(file, rs, parsers[4]))

ParseURI == At(5) /\ Handled(parseURI(file, rs, parsers[5]))

ParseEmail == At(6) /\ Handled(parseEmail(file, rs, parsers[6]))

ParsePhone == At(7) /\ Handled(parsePhone(file, rs, parsers[7]))

ParseConnInfo == At(8) /\ Handled(parseConnInfo(file, rs, parsers[8]))

ParseBandwidth == At(9) /\ Handled(parseBandwidth(file, rs, parsers[9]))

ParseInterval == At(10) /\ Handled(parseInterval(file, rs, parsers[10]))

ParseAttributes == At(11) /\ Handled(parseAttributes(file, rs, parsers[11]))

SkipRepeat == At(12) /\ Handled(skip(file, rs, parsers[12]))

SkipZone == At(13) /\ Handled(skip(file, rs, parsers[13]))

\* Parse returns err (an io.EOF as nil) from inside parseMedia.
MediaReturn(e, rest) ==
  /\ pc' = "parsed"
  /\ err' = (IF e = "io.EOF" THEN "nil" ELSE e)
  /\ rs' = rest
  /\ rsBefore' = rs
  /\ UNCHANGED <<input, phase, slot, mslot, mi, file, first, out, sf, ports>>

\* One pass of the loop of parseMedia up to the media table: without an m=
\* line parseMedia returns nil, and Parse with it; else the m= line is read.
ParseMedia ==
  /\ At(MediaSlot)
  /\ IF ~hasPrefix(rs, parsers[MediaSlot])
     THEN /\ pc' = "parsed"
          /\ err' = "nil"
          /\ slot' = slot + 1
          /\ rsBefore' = rs
          /\ UNCHANGED <<input, phase, rs, mslot, mi, file, first, out, sf, ports>>
     ELSE LET c == checkLine(rs, parsers[MediaSlot])
              m == parseMediaLine(c.line)
          IN  IF c.err # "nil" THEN MediaReturn(c.err, c.rs)
              ELSE IF m.err # "nil" THEN MediaReturn(m.err, c.rs)
              ELSE /\ mi' = m.mi
                   /\ mslot' = 1
                   /\ rs' = c.rs
                   /\ rsBefore' = rs
                   /\ UNCHANGED <<input, phase, pc, slot, file, err, first, out, sf, ports>>

\* MediaHandled with the attributes of the media block stored in the
\* Attributes of the File as well.
MediaHandledShared(r) ==
  IF r.err # "nil" THEN MediaReturn(r.err, r.rs)
  ELSE /\ rs' = r.rs
       /\ rsBefore' = rs
       /\ IF mslot < Len(mediaparsers)
          THEN mi' = r.mi /\ mslot' = mslot + 1 /\ file' = file
          ELSE /\ mi' = ZeroMediaInfo
               /\ mslot' = 0
               /\ file' = [file EXCEPT !.Medias = Append(@, r.mi),
                                       !.Attributes = @ \o r.mi.Attributes]
       /\ UNCHANGED <<input, phase, pc, slot, err, first, out, sf, ports>>

\* The body of the loop of parseMediaDescription for the handler result r;
\* after the last handler parseMedia appends the MediaInfo.
MediaHandled(r) ==
  IF r.err # "nil" THEN MediaReturn(r.err, r.rs)
  ELSE /\ rs' = r.rs
       /\ rsBefore' = rs
       /\ IF mslot < Len(mediaparsers)
          THEN mi' = r.mi /\ mslot' = mslot + 1 /\ file' = file
          ELSE /\ mi' = ZeroMediaInfo
               /\ mslot' = 0
               /\ file' = [file EXCEPT !.Medias = Append(@, r.mi)]
       /\ UNCHANGED <<input, phase, pc, slot, err, first, out, sf, ports>>

AtMedia(j) == pc = "parse" /\ slot = MediaSlot /\ mslot = j

ParseMediaInfo == AtMedia(1) /\ MediaHandled(parseMediaInfo(mi, rs, mediaparsers[1]))

ParseMediaConnInfo ==
  AtMedia(2) /\ MediaHandled(parseMediaConnInfo(mi, rs, mediaparsers[2]))

ParseMediaBandwidth ==
  AtMedia(3) /\ MediaHandled(parseMediaBandwidth(mi, rs, mediaparsers[3]))

ParseMediaAttributes ==
  AtMedia(4) /\ MediaHandled(parseMediaAttributes(mi, rs, mediaparsers[4]))

\* examples/parse.go: a File parsed without error is dumped.
DumpFile ==
  /\ pc = "parsed"
  /\ phase = 1
  /\ err = "nil"
  /\ out' = Dump(file)
  /\ pc' = "dumped"
  /\ UNCHANGED <<input, phase, rs, slot, mslot, mi, file, err, rsBefore, first,
                 sf, ports>>

\* The dump is parsed again, into a new File.
ParseAgain ==
  /\ pc = "dumped"
  /\ phase' = 2
  /\ pc' = "parse"
  /\ rs' = out
  /\ rsBefore' = out
  /\ slot' = 1
  /\ mslot' = 0
  /\ mi' = ZeroMediaInfo
  /\ first' = file
  /\ file' = ZeroFile
  /\ UNCHANGED <<input, err, out, sf, ports>>

\* A caller asks the parsed File, or one of its medias, for its source
\* filter.
FileSourceFilter ==
  /\ pc = "parsed"
  /\ phase = 2
  /\ sf = NoSourceInfo
  /\ sf' = SourceFilter(first.Attributes)
  /\ UNCHANGED <<input, phase, pc, rs, slot, mslot, mi, file, err, rsBefore,
                 first, out, ports>>

MediaSourceFilter ==
  /\ pc = "parsed"
  /\ phase = 2
  /\ sf = NoSourceInfo
  /\ \E i \in 1..Len(first.Medias) :
       sf' = SourceFilter(first.Medias[i].Attributes)
  /\ UNCHANGED <<input, phase, pc, rs, slot, mslot, mi, file, err, rsBefore,
                 first, out, ports>>

Next ==
  \/ ParseVersion \/ ParseOrigin \/ ParseName \/ ParseInfo \/ ParseURI
  \/ ParseEmail \/ ParsePhone \/ ParseConnInfo \/ ParseBandwidth
  \/ ParseInterval \/ ParseAttributes \/ SkipRepeat \/ SkipZone
  \/ ParseMedia \/ ParseMediaInfo \/ ParseMediaConnInfo
  \/ ParseMediaBandwidth \/ ParseMediaAttributes
  \/ DumpFile \/ ParseAgain \/ FileSourceFilter \/ MediaSourceFilter

Spec == Init /\ [][Next]_vars

\* The steps of Parse.
ParseStep ==
  \/ ParseVersion \/ ParseOrigin \/ ParseName \/ ParseInfo \/ ParseURI
  \/ ParseEmail \/ ParsePhone \/ ParseConnInfo \/ ParseBandwidth
  \/ ParseInterval \/ ParseAttributes \/ SkipRepeat \/ SkipZone
  \/ ParseMedia \/ ParseMediaInfo \/ ParseMediaConnInfo
  \/ ParseMediaBandwidth \/ ParseMediaAttributes


\* The text the running Parse was given.
Text == IF phase = 1 THEN input ELSE out

-----------------------------------------------------------------------------
(* MediaInfo.PortRange on MediaInfo values built by a caller               *)

\* The largest Count, and how far the ports are from 0 and from 65535.
MaxCount == 3

PortSpan == 5

Ports == (0..PortSpan) \cup {5000, 5004} \cup ((65535 - PortSpan)..65535)

InitPortRange ==
  /\ mi \in {[ZeroMediaInfo EXCEPT !.Media = "audio", !.Port = p, !.Count = c] :
               p \in Ports, c \in 0..MaxCount}
  /\ pc = "built"
  /\ ports = << >>
  /\ input = "" /\ phase = 1 /\ rs = "" /\ slot = 1 /\ mslot = 0
  /\ file = ZeroFile /\ err = "nil" /\ rsBefore = "" /\ first = ZeroFile
  /\ out = "" /\ sf = NoSourceInfo

CallPortRange ==
  /\ pc = "built"
  /\ ports' = PortRange(mi)
  /\ pc' = "ranged"
  /\ UNCHANGED <<input, phase, rs, slot, mslot, mi, file, err, rsBefore, first,
                 out, sf>>

NextPortRange == CallPortRange

SpecPortRange == InitPortRange /\ [][NextPortRange]_vars

-----------------------------------------------------------------------------
(* Parse on the lines of the session and media scopes                      *)

\* The number of lines after the three mandatory ones.
MaxDetail == 3

\* Bandwidth, attribute, timing, media and information lines, well-formed
\* and malformed.
DetailLines ==
  {"b=AS:64", "b=CT:-5", "b=AS:", "b=:64", "b=AS",
   "a=k:w:z", "a=recvonly", "a=source-filter:incl IN IP4",
   "t=0 0", "t=3034423619 0", "t=-59926608000 0",
   "m=audio 49170 RTP/AVP 0", "i=n"}

DetailInputs ==
  {Join(GoodHeader \o b, "\r\n", TRUE) : b \in SeqsUpTo(DetailLines, MaxDetail)}

InitDetail ==
  /\ input \in DetailInputs
  /\ phase = 1
  /\ pc = "parse"
  /\ rs = input
  /\ slot = 1
  /\ mslot = 0
  /\ mi = ZeroMediaInfo
  /\ file = ZeroFile
  /\ err = "nil"
  /\ rsBefore = input
  /\ first = ZeroFile
  /\ out = ""
  /\ sf = NoSourceInfo
  /\ ports = << >>

SpecDetail == InitDetail /\ [][Next]_vars

-----------------------------------------------------------------------------
(* Parse run to its end                                                    *)

\* A line for each loop over lines: e, p, b, t, a, r, z and m.
LoopLines ==
  {"e=m", "p=7", "b=AS:64", "t=0 0", "a=k:w", "r=1", "z=2",
   "m=audio 49170 RTP/AVP 0"}

\* The headers, whole and cut short, and the lines of the loops after a
\* whole header, the last line with its end of line and without.
LiveInputs ==
  {Join(d, "\r\n", TRUE) : d \in Headers}
  \cup {Join(GoodHeader \o b, "\r\n", t) :
          b \in SeqsUpTo(LoopLines, MaxDetail), t \in BOOLEAN}

InitLive ==
  /\ input \in LiveInputs
  /\ phase = 1
  /\ pc = "parse"
  /\ rs = input
  /\ slot = 1
  /\ mslot = 0
  /\ mi = ZeroMediaInfo
  /\ file = ZeroFile
  /\ err = "nil"
  /\ rsBefore = input
  /\ first = ZeroFile
  /\ out = ""
  /\ sf = NoSourceInfo
  /\ ports = << >>

\* Parse is sequential code: its next step is taken.  The fairness condition
\* is WF_vars(ParseStep) with ENABLED <<ParseStep>>_vars written out: until
\* Parse returns, one handler of a table is the next to run, and every
\* handler returns.
SpecLive ==
  InitLive /\ [][Next]_vars /\ ([]<>(pc # "parse") \/ []<><<ParseStep>>_vars)

-----------------------------------------------------------------------------
(* File.Dump on File values built by a caller                              *)

BuiltConnInfo ==
  [NetType |-> "IN", AddrType |-> "IP4", Addr |-> "h", TTL |-> Zero64]

BuiltMedias ==
  LET audio == [ZeroMediaInfo EXCEPT !.Media = "audio", !.Port = 49170,
                                     !.Proto = "RTP/AVP", !.Attrs = <<"0">>,
                                     !.Info = "n"]
      video == [ZeroMediaInfo EXCEPT !.Media = "video", !.Port = 5004, !.Count = 2,
                                     !.Proto = "RTP/AVP", !.Attrs = <<"31", "32">>,
                                     !.ConnInfo = BuiltConnInfo,
                                     !.Bandwidth = <<[Type |-> "AS", Value |-> Num("64")]>>,
                                     !.Attributes = <<[Name |-> "k", Value |-> "w"]>>]
  IN  {<< >>, <<audio>>, <<audio, video>>}

\* File values a caller can build, the zero value File{} among them.
BuiltFiles ==
  {[Version    |-> Zero64,
    Session    |-> [ZeroSession EXCEPT !.User = user, !.ConnInfo = origin,
                                       !.Name = name, !.Info = info],
    Email      |-> email,
    Phone      |-> << >>,
    ConnInfo   |-> conn,
    Bandwidth  |-> bws,
    Attributes |-> attrs,
    Intervals  |-> is,
    Medias     |-> ms] :
     user \in {"", "u"},
     origin \in {ZeroConnInfo, BuiltConnInfo, [BuiltConnInfo EXCEPT !.TTL = Num("127")]},
     name \in {"", "x"},
     info \in {"", "n"},
     email \in {<< >>, <<"m", "m">>},
     conn \in {ZeroConnInfo, BuiltConnInfo},
     bws \in {<< >>, <<[Type |-> "AS", Value |-> Num("64")]>>},
     attrs \in {<< >>, <<[Name |-> "k", Value |-> "w"]>>},
     is \in {<< >>, <<[Starts |-> ZeroTime, Ends |-> ZeroTime]>>},
     ms \in BuiltMedias}

InitBuilt ==
  /\ file \in BuiltFiles
  /\ pc = "built"
  /\ out = ""
  /\ input = "" /\ phase = 1 /\ rs = "" /\ slot = 1 /\ mslot = 0
  /\ mi = ZeroMediaInfo /\ err = "nil" /\ rsBefore = "" /\ first = ZeroFile
  /\ sf = NoSourceInfo /\ ports = << >>

\* The caller dumps the File it has built.
DumpBuilt ==
  /\ pc = "built"
  /\ out' = Dump(file)
  /\ pc' = "dumped"
  /\ UNCHANGED <<input, phase, rs, slot, mslot, mi, file, err, rsBefore, first,
                 sf, ports>>

NextBuilt == DumpBuilt

SpecBuilt == InitBuilt /\ [][NextBuilt]_vars

-----------------------------------------------------------------------------
(* Properties                                                              *)

\* The lines of a text as the reader cuts them, without their end of line.
RECURSIVE LinesOf(_)
LinesOf(t) ==
  IF t = "" THEN << >>
  ELSE <<TrimRight(ReadString(t).line)>> \o LinesOf(ReadString(t).rs)

\* The text after its first k lines.
RECURSIVE RestAfter(_, _)
RestAfter(t, k) == IF k = 0 \/ t = "" THEN t ELSE RestAfter(ReadString(t).rs, k - 1)

AllDigits(s) == s # "" /\ \A i \in 1..Len(s) : IsDigit(CharAt(s, i))

Unsigned(s) == IF s # "" /\ CharAt(s, 1) \in {"+", "-"} THEN From(s, 1) ELSE s

\* A decimal number with an optional sign, and one that is zero.
IsNumber(s) == AllDigits(Unsigned(s))

IsZeroNumber(s) ==
  IsNumber(s) /\ \A i \in 1..Len(Unsigned(s)) : CharAt(Unsigned(s), i) = "0"

Returned == pc = "parsed"

ConnInfosOf(f) ==
  {f.Session.ConnInfo, f.ConnInfo} \cup {f.Medias[i].ConnInfo : i \in 1..Len(f.Medias)}

\* C1: when Parse succeeded on the input, Parse of the dump of its File
\* succeeds too and returns a File equal to it in every field.
C1_RoundTrip == (Returned /\ phase = 2) => (err = "nil" /\ file = first)

\* The tags of the lines of a dump, in order.
TagsOf(t) == [i \in 1..Len(LinesOf(t)) |-> CharAt(LinesOf(t)[i], 1)]

\* The place of a tag in v, o, s, [i], [u], e*, p*, [c], b*, t*, a*, and in
\* a media block m, [i], [c], b*, a*.
SessionRank(tag) == Index("vosiuepcbta", tag)

MediaRank(tag) == Index("micba", tag)

FirstMedia(tags) ==
  IF \E i \in 1..Len(tags) : tags[i] = "m"
  THEN CHOOSE i \in 1..Len(tags) : tags[i] = "m" /\ \A j \in 1..(i - 1) : tags[j] # "m"
  ELSE Len(tags) + 1

Ordered(tags) ==
  LET m == FirstMedia(tags)
  IN  /\ m > 3 /\ tags[1] = "v" /\ tags[2] = "o" /\ tags[3] = "s"
      /\ \A i \in 1..(m - 1) : SessionRank(tags[i]) >= 0
      /\ \A i \in 1..(m - 2) :
           \/ SessionRank(tags[i]) < SessionRank(tags[i + 1])
           \/ tags[i] = tags[i + 1] /\ tags[i] \in {"e", "p", "b", "t", "a"}
      /\ \A i \in m..Len(tags) : MediaRank(tags[i]) >= 0
      /\ \A i \in m..(Len(tags) - 1) :
           \/ tags[i + 1] = "m"
           \/ MediaRank(tags[i]) < MediaRank(tags[i + 1])
           \/ tags[i] = tags[i + 1] /\ tags[i] \in {"b", "a"}

\* C2: the tags of the lines Dump writes are in the order v, o, s, [i], [u],
\* e*, p*, [c], b*, t*, a*, then the media blocks: every session-level t=
\* line comes before every session-level a= line.
C2_DumpOrder == pc = "dumped" => Ordered(TagsOf(out))

\* C3: Parse does not return a nil error leaving unread a line whose tag
\* belongs to a slot of the table it has passed.
C3_NoLineLeftBehind ==
  (Returned /\ err = "nil") =>
    \A k \in 1..Len(parsers) : ~HasPrefixStr(rs, parsers[k] \o "=")

\* C4: an error Parse returns is an ErrSyntax or an ErrInvalid.
C4_ErrorKinds == Returned => err \in {"nil", "ErrSyntax", "ErrInvalid"}

\* C5: when the v= line carries a number other than 0, Parse returns an
\* ErrInvalid having read that line only; when the o= line it comes to has
\* not exactly 6 space-separated tokens, Parse returns an ErrSyntax having
\* read no line after it.
C5_HeaderValidation ==
  LET ls == LinesOf(Text)
      vnumber == Len(ls) >= 1 /\ HasPrefixStr(ls[1], "v=") /\ IsNumber(From(ls[1], 2))
  IN  Returned =>
        /\ (vnumber /\ ~IsZeroNumber(From(ls[1], 2))) =>
             (err = "ErrInvalid" /\ rs = RestAfter(Text, 1))
        /\ (/\ vnumber /\ IsZeroNumber(From(ls[1], 2))
            /\ Len(ls) >= 2 /\ HasPrefixStr(ls[2], "o=")
            /\ Len(split(From(ls[2], 2))) # 6) =>
             (err = "ErrSyntax" /\ rs = RestAfter(Text, 2))

\* Parse has returned an ErrSyntax for an o= line of 7 tokens, with the
\* line after it unread.
C5_Witness ==
  /\ Returned /\ phase = 1 /\ slot = 2 /\ err = "ErrSyntax"
  /\ Len(LinesOf(input)) = 3
  /\ Len(split(From(LinesOf(input)[2], 2))) = 7
  /\ rs = RestAfter(input, 2) /\ rs # ""

\* Parse has returned an ErrInvalid for the line v=1, the lines after it
\* unread.
C5_WitnessVersion ==
  /\ Returned /\ phase = 1 /\ slot = 1 /\ err = "ErrInvalid"
  /\ LinesOf(input)[1] = "v=1" /\ rs = RestAfter(input, 1) /\ rs # ""

\* C6: a mandatory handler (v=, o=, s=) called at the end of the input makes
\* Parse return an ErrSyntax, so Parse never returns nil for an input that
\* ends before the three mandatory lines; a later handler, of the session
\* or of a media block, called at the end of the input returns no error.
C6_EndOfStream ==
  /\ (Returned /\ slot <= 3 /\ rsBefore = "") => err = "ErrSyntax"
  /\ (Returned /\ err = "nil") => (slot > 3 /\ Len(LinesOf(Text)) >= 3)
  /\ (slot > 3 /\ rsBefore = "") => err = "nil"

\* Parse has returned nil for an input that ends inside a media block, its
\* last line without an end of line, the block read to its end.
C6_Witness ==
  /\ Returned /\ phase = 1 /\ err = "nil" /\ rs = "" /\ rsBefore = ""
  /\ input # "" /\ CharAt(input, Len(input)) # "\n"
  /\ Len(file.Medias) = 1 /\ file.Medias[1].Attributes # << >>

\* Parse has returned an ErrSyntax for an input that ends after its o= line.
C6_WitnessTruncated ==
  /\ Returned /\ phase = 1 /\ slot = 3 /\ rsBefore = "" /\ err = "ErrSyntax"
  /\ Len(LinesOf(input)) = 2

\* The m= line parseMedia has just read, and whether it has.
MediaLine == TrimRight(ReadString(rsBefore).line)

AfterMediaLine ==
  /\ slot = MediaSlot
  /\ HasPrefixStr(MediaLine, "m=")
  /\ \/ pc = "parse" /\ mslot = 1
     \/ Returned /\ mslot = 0 /\ err # "nil"

InPortRange(s) == AllDigits(s) /\ NatLeq(NatOfStr(s), NatOfStr("65535"))

\* C7: an m= line whose second token is P/C, P and C decimal numbers in
\* 0..65535, is read without error with Port = P and Count = C, and one
\* whose second token is P with Port = P and Count = 0.  (Stated for lines of
\* four tokens or more: parseMediaDescription refuses a line of three.)
C7_MediaPort ==
  LET parts == split(From(MediaLine, 2))
      tok   == parts[2]
      x     == Index(tok, "/")
  IN  (AfterMediaLine /\ Len(parts) >= 4) =>
        /\ (x > 0 /\ InPortRange(Upto(tok, x)) /\ InPortRange(From(tok, x + 1))) =>
             /\ err = "nil"
             /\ mi.Port = NatToInt(NatOfStr(Upto(tok, x)))
             /\ mi.Count = NatToInt(NatOfStr(From(tok, x + 1)))
        /\ (x < 0 /\ InPortRange(tok)) =>
             /\ err = "nil"
             /\ mi.Port = NatToInt(NatOfStr(tok))
             /\ mi.Count = 0

\* C8: PortRange returns [Port] when Count is 0 and else the Count ports
\* Port, Port+1, ..., Port+Count-1, each one greater than the one before.
C8_PortRange ==
  pc = "ranged" =>
    IF mi.Count = 0 THEN ports = <<mi.Port>>
    ELSE /\ Len(ports) = mi.Count
         /\ \A i \in 1..Len(ports) : ports[i] = mi.Port + i - 1
         /\ \A i \in 1..(Len(ports) - 1) : ports[i + 1] = ports[i] + 1

\* C9: after a Parse without error no ConnInfo of the File has a negative
\* TTL or a "/" in its Addr, and an origin address token A/N, A not empty,
\* has given Addr = A and TTL = N, N a number without a minus sign.
C9_ConnectionTTL ==
  LET tok == split(From(LinesOf(Text)[2], 2))[6]
      x   == Index(tok, "/")
  IN  (Returned /\ err = "nil") =>
        /\ \A ci \in ConnInfosOf(file) : ~ci.TTL.neg /\ Index(ci.Addr, "/") < 0
        /\ x > 0 =>
             /\ IsNumber(From(tok, x + 1)) /\ CharAt(tok, x + 2) # "-"
             /\ file.Session.ConnInfo.Addr = Upto(tok, x)
             /\ file.Session.ConnInfo.TTL = Num(Unsigned(From(tok, x + 1)))

\* C10: a ConnInfo read from an o= or c= line has the addr-type IP4 or IP6,
\* any other making Parse fail with an ErrInvalid; a source filter read
\* without error has the addr-type IP4, IP6 or "*".
C10_AddrType ==
  /\ (Returned /\ err = "nil") =>
       \A ci \in ConnInfosOf(file) : IsZero(ci) \/ ci.AddrType \in {"IP4", "IP6"}
  /\ sf.err = "nil" => sf.info.AddrType \in {"IP4", "IP6", "*"}


\* The lines the handler that ran last has read.
Consumed == LinesOf(Upto(rsBefore, Len(rsBefore) - Len(rs)))

\* The session handler of slot k has just run, and the media handler of
\* media slot j.
AfterSession(k) ==
  mslot = 0 /\ ((pc = "parse" /\ slot = k + 1) \/ (Returned /\ slot = k))

AfterMedia(j) ==
  /\ slot = MediaSlot
  /\ \/ pc = "parse" /\ mslot = j + 1
     \/ pc = "parse" /\ mslot = 0 /\ j = Len(mediaparsers) /\ file.Medias # << >>
     \/ Returned /\ mslot = j

\* The MediaInfo the media handlers have filled last.
CurrentMedia ==
  IF pc = "parse" /\ mslot = 0 /\ file.Medias # << >>
  THEN file.Medias[Len(file.Medias)] ELSE mi

\* A decimal number with an optional sign that fits 64 bits, and its value.
NumberOf(s) == I64(s # "" /\ CharAt(s, 1) = "-", NatNorm(NatOfStr(Unsigned(s))))

IsInt64(s) ==
  IsNumber(s) /\ ~IntLess(MaxInt64, NumberOf(s)) /\ ~IntLess(NumberOf(s), MinInt64)

\* The text of a line after its tag, and a b= line T:V with T not empty and
\* V a 64-bit number.
TextOf(line) == From(line, 2)

GoodBandwidth(line) ==
  LET x == Index(TextOf(line), ":")
  IN  x > 0 /\ IsInt64(From(TextOf(line), x + 1))

\* A b= line without ":", with an empty type or with an empty value.
BadBandwidth(line) ==
  LET x == Index(TextOf(line), ":")
  IN  x <= 0 \/ x = Len(TextOf(line)) - 1

BandwidthOf(line) ==
  LET x == Index(TextOf(line), ":")
  IN  [Type |-> Upto(TextOf(line), x), Value |-> NumberOf(From(TextOf(line), x + 1))]

\* What the b= lines read in a scope must have given: bws is the Bandwidth
\* list of the scope.
BandwidthRead(bws) ==
  LET ls == Consumed
  IN  /\ (\A i \in 1..Len(ls) : GoodBandwidth(ls[i])) =>
           /\ err = "nil"
           /\ bws = [i \in 1..Len(ls) |-> BandwidthOf(ls[i])]
      /\ (\E i \in 1..Len(ls) :
            BadBandwidth(ls[i]) /\ \A j \in 1..(i - 1) : GoodBandwidth(ls[j])) =>
           (Returned /\ err = "ErrSyntax")

\* C11: the b= lines T:V of a scope, T not empty and V a 64-bit decimal
\* number, give the Bandwidth list of the scope, one entry per line in the
\* order of the input, split at the first ":"; a b= line without ":", with
\* an empty type or with an empty value makes Parse return an ErrSyntax.
C11_BandwidthLines ==
  /\ AfterSession(9) => BandwidthRead(file.Bandwidth)
  /\ AfterMedia(3) => BandwidthRead(CurrentMedia.Bandwidth)

\* Two b= lines have been read into a media block, in their order.
C11_Witness ==
  /\ AfterMedia(3) /\ pc = "parse"
  /\ Consumed = <<"b=CT:-5", "b=AS:64">>
  /\ mi.Bandwidth = <<[Type |-> "CT", Value |-> Num("-5")],
                      [Type |-> "AS", Value |-> Num("64")]>>

\* Parse has returned an ErrSyntax for a b= line with an empty value that
\* follows a well-formed one at the session level.
C11_WitnessEmpty ==
  /\ AfterSession(9) /\ Returned /\ err = "ErrSyntax"
  /\ Consumed = <<"b=AS:64", "b=AS:">>

\* The Attribute of an a= line that holds a ":", and the Attributes of the
\* a= lines ls, those without ":" left out.
AttributeOf(line) ==
  LET x == Index(TextOf(line), ":")
  IN  [Name |-> Upto(TextOf(line), x), Value |-> From(TextOf(line), x + 1)]

RECURSIVE AttributesOf(_)
AttributesOf(ls) ==
  IF ls = << >> THEN << >>
  ELSE (IF Index(TextOf(Head(ls)), ":") >= 0 THEN <<AttributeOf(Head(ls))>> ELSE << >>)
       \o AttributesOf(Tail(ls))

\* What the a= lines read in a scope must have given: attrs is the
\* Attributes list of the scope.
AttributesRead(attrs) ==
  (\A i \in 1..Len(Consumed) : HasPrefixStr(Consumed[i], "a=")) =>
    (err = "nil" /\ attrs = AttributesOf(Consumed))

\* C12: the Attributes of a scope are, in the order of the input, one entry
\* for each of its consecutive a= lines that holds a ":", Name the text
\* before the first ":" and Value the text after it; an a= line without ":"
\* is read without error, adds no entry and changes no entry.
C12_AttributeLines ==
  /\ AfterSession(11) => AttributesRead(file.Attributes)
  /\ AfterMedia(4) => AttributesRead(CurrentMedia.Attributes)

\* Three a= lines of the session have been read, the second without ":":
\* two entries are stored, the first cut at its first ":".
C12_Witness ==
  /\ AfterSession(11) /\ pc = "parse"
  /\ Consumed = <<"a=k:w:z", "a=recvonly", "a=source-filter:incl IN IP4">>
  /\ file.Attributes = <<[Name |-> "k", Value |-> "w:z"],
                         [Name |-> "source-filter", Value |-> "incl IN IP4"]>>

\* An a= line without ":" has been read after one with ":" in a media block.
C12_WitnessMedia ==
  /\ AfterMedia(4) /\ pc = "parse" /\ mslot = 0
  /\ Consumed = <<"a=k:w:z", "a=recvonly">>
  /\ CurrentMedia.Attributes = <<[Name |-> "k", Value |-> "w:z"]>>

\* The lines of a text with their ends of line.
RECURSIVE RawLines(_)
RawLines(t) ==
  IF t = "" THEN << >> ELSE <<ReadString(t).line>> \o RawLines(ReadString(t).rs)

Flag(b) == IF b THEN 1 ELSE 0

\* The number of tag prefixes Dump emits for a media block, and for a File.
MediaRecords(m) ==
  1 + Flag(m.Info # "") + Flag(~IsZero(m.ConnInfo)) + Len(m.Bandwidth)
  + Len(m.Attributes)

RECURSIVE MediasRecords(_)
MediasRecords(ms) ==
  IF ms = << >> THEN 0 ELSE MediaRecords(Head(ms)) + MediasRecords(Tail(ms))

RecordsOf(f) ==
  Len(parsers[1] \o parsers[2] \o parsers[3])
  + Flag(f.Session.Info # "") + Flag(f.Session.URI # "")
  + Len(f.Email) + Len(f.Phone) + Flag(~IsZero(f.ConnInfo)) + Len(f.Bandwidth)
  + Len(f.Attributes) + Len(f.Intervals) + MediasRecords(f.Medias)

\* A record <tag>=<text> ended by CR LF.
IsRecord(line) ==
  /\ Len(line) >= 4
  /\ Index("vosiuepcbtam", CharAt(line, 1)) >= 0
  /\ CharAt(line, 2) = "="
  /\ From(line, Len(line) - 2) = EOL

\* C13: the output of Dump is a sequence of records <tag>=<text>, each
\* ended by CR LF: every line of it is such a record, and it has as many
\* lines as Dump has emitted tag prefixes, so every prefix starts a line.
C13_LineTerminator ==
  pc = "dumped" =>
    /\ \A i \in 1..Len(RawLines(out)) : IsRecord(RawLines(out)[i])
    /\ Len(RawLines(out)) = RecordsOf(file)

\* A t= line of two 64-bit numbers.
GoodTiming(line) ==
  /\ HasPrefixStr(line, "t=")
  /\ Len(split(TextOf(line))) = 2
  /\ IsInt64(split(TextOf(line))[1]) /\ IsInt64(split(TextOf(line))[2])

\* The timestamp t read from the number s: 0 gives the zero timestamp, any
\* other number n the time with Unix seconds n - 2208988800, which is not
\* the zero timestamp; and Dump writes t back as the number read.
TimeRead(s, t) ==
  IF NumberOf(s) = Zero64
  THEN TimeIsZero(t) /\ convert(t) = "0"
  ELSE /\ t = IntSub(NumberOf(s), epoch)
       /\ ~TimeIsZero(t)
       /\ NumberOf(convert(t)) = NumberOf(s)

\* C14: each t= line of two numbers appends one Interval; the number 0
\* becomes the zero timestamp and a number n other than 0 the time with Unix
\* seconds n - 2208988800, so that "0 0" is unbound and permanent and "n 0"
\* unbound and not permanent; Dump writes every timestamp back as the
\* number it was read from.
C14_TimingConversion ==
  LET ls == Consumed
  IN  (AfterSession(10) /\ \A i \in 1..Len(ls) : GoodTiming(ls[i])) =>
        /\ err = "nil"
        /\ Len(file.Intervals) = Len(ls)
        /\ \A i \in 1..Len(ls) :
             LET toks == split(TextOf(ls[i]))
                 iv   == file.Intervals[i]
             IN  /\ TimeRead(toks[1], iv.Starts)
                 /\ TimeRead(toks[2], iv.Ends)
                 /\ NumberOf(toks[2]) = Zero64 =>
                      /\ IsUnbound(iv)
                      /\ IsPermanent(iv) <=> NumberOf(toks[1]) = Zero64

\* The lines Parse has read so far, and the media blocks among them: each
\* block is an m= line with the lines read after it up to the next m= line.
ReadLines == LinesOf(Upto(Text, Len(Text) - Len(rs)))

RECURSIVE Blocks(_, _)
Blocks(ls, acc) ==
  IF ls = << >> THEN acc
  ELSE IF HasPrefixStr(Head(ls), "m=") THEN Blocks(Tail(ls), Append(acc, <<Head(ls)>>))
  ELSE IF acc = << >> THEN Blocks(Tail(ls), acc)
  ELSE Blocks(Tail(ls), [acc EXCEPT ![Len(acc)] = Append(@, Head(ls))])

Tagged(ls, tag) == SelectSeq(ls, LAMBDA l : HasPrefixStr(l, tag \o "="))

\* The MediaInfo m holds what the lines of the media block say.
BlockStored(block, m) ==
  LET parts == split(TextOf(Head(block)))
      ls    == Tail(block)
      is    == Tagged(ls, "i")
      cs    == Tagged(ls, "c")
      bs    == Tagged(ls, "b")
  IN  /\ m.Media = parts[1] /\ m.Proto = parts[3]
      /\ m.Attrs = SubSeq(parts, 4, Len(parts))
      /\ m.Info = (IF is = << >> THEN "" ELSE TextOf(is[1]))
      /\ IsZero(m.ConnInfo) <=> cs = << >>
      /\ m.Bandwidth = [i \in 1..Len(bs) |-> BandwidthOf(bs[i])]
      /\ m.Attributes = AttributesOf(Tagged(ls, "a"))

\* The fields of a File other than its media blocks.
SessionLevel(f) == [f EXCEPT !.Medias = << >>]

\* Between two media blocks, or after a Parse without error.
BlocksComplete ==
  \/ pc = "parse" /\ slot = MediaSlot /\ mslot = 0
  \/ Returned /\ err = "nil"

MediasStored ==
  BlocksComplete =>
    LET blocks == Blocks(ReadLines, << >>)
    IN  /\ Len(file.Medias) = Len(blocks)
        /\ \A k \in 1..Len(blocks) : BlockStored(blocks[k], file.Medias[k])

SessionKept ==
  (pc = "parse" /\ slot = MediaSlot /\ phase' = phase) =>
    SessionLevel(file') = SessionLevel(file)

\* C15: Parse appends one MediaInfo for each m= line it has read, in the
\* order of the input, holding the i=, c=, b= and a= lines that follow that
\* m= line and no others; and once Parse has come to the m= lines no field
\* of the File other than Medias changes.
C15_MediaNesting == []MediasStored /\ [][SessionKept]_vars

\* Two media blocks have been read: the first holds the i= line that
\* follows its m= line, the second holds none and the session none either.
C15_Witness ==
  /\ pc = "parse" /\ slot = MediaSlot /\ mslot = 0 /\ phase = 1
  /\ Len(file.Medias) = 2
  /\ file.Medias[1].Info = "n" /\ file.Medias[2].Info = ""
  /\ file.Session.Info = "" /\ file.Attributes = << >>

\* The values of the first attribute named source-filter of the File the
\* caller asks and of each of its media blocks.
FilterValues ==
  LET scopes == {first.Attributes}
                  \cup {first.Medias[i].Attributes : i \in 1..Len(first.Medias)}
  IN  {findAttributes("source-filter", as).a.Value :
         as \in {x \in scopes : findAttributes("source-filter", x).ok}}

\* C16: SourceFilter returns a SourceInfo or an error, never a run-time
\* panic: the SourceInfo it returns without error is made of the first four
\* tokens of the value and the tokens after them, so a value of fewer than
\* four tokens gives an error.
C16_SourceFilterTotal ==
  /\ sf.err # "panic"
  /\ sf.err = "nil" =>
       \E v \in FilterValues :
         /\ Len(split(v)) >= 4
         /\ sf.info = [Mode |-> split(v)[1], NetType |-> split(v)[2],
                       AddrType |-> split(v)[3], Addr |-> split(v)[4],
                       List |-> SubSeq(split(v), 5, Len(split(v)))]

\* The slots of the session table whose handler loops over its lines (e, p,
\* b, t, a, r, z), and those of the media table (b, a).
LoopSlots == {k \in 1..(MediaSlot - 1) : parsers[k] \in {"e", "p", "b", "t", "a", "r", "z"}}

MediaLoopSlots == {j \in 1..Len(mediaparsers) : mediaparsers[j] \in {"b", "a"}}

\* The number of entries a step has added to the lists of the File or of the
\* media block under construction.
Stored(f) ==
  Len(f.Email) + Len(f.Phone) + Len(f.Bandwidth) + Len(f.Intervals)
  + Len(f.Attributes) + Len(f.Medias)

MediaStored(m) == Len(m.Bandwidth) + Len(m.Attributes)

\* A step of Parse: the reader moves forward over whole lines, the table
\* position moves forward and stays only in the loop of parseMedia, a pass
\* of a loop takes at least one byte, what a handler stores it has read, and
\* no more entries are stored than lines are read.
Forward ==
  LET taken == Len(rs) - Len(rs')
      lines == Len(LinesOf(Upto(rs, taken)))
  IN  (pc = "parse" /\ phase' = phase) =>
        /\ taken >= 0 /\ rs' = From(rs, taken)
        /\ taken > 0 => (rs' = "" \/ CharAt(rs, taken) = "\n")
        /\ slot' >= slot /\ slot' <= slot + 1
        /\ (slot' = slot /\ pc' = "parse") => slot = MediaSlot
        /\ (mslot = 0 /\ slot \in LoopSlots /\ hasPrefix(rs, parsers[slot])) => taken > 0
        /\ (mslot = 0 /\ slot = MediaSlot /\ pc' = "parse") => taken > 0
        /\ (mslot \in MediaLoopSlots /\ hasPrefix(rs, mediaparsers[mslot])) => taken > 0
        /\ (mslot = 0 /\ file' # file) => (taken > 0 /\ Stored(file') <= Stored(file) + lines)
        /\ (mslot > 0 /\ pc' = "parse" /\ mslot' > 0 /\ mi' # mi) =>
             (taken > 0 /\ MediaStored(mi') <= MediaStored(mi) + lines)

\* C17: Parse terminates, and it reads its input in one pass: every step
\* moves the reader forward or leaves it, every pass of a loop over lines
\* (e, p, b, t, a, r, z, m, and b and a of a media block) takes at least one
\* byte, the table position only moves forward, each session handler runs
\* at most once, and no line is read twice.
C17_SinglePass == [][Forward]_vars /\ (pc = "parse" ~> pc = "parsed")

\* Parse has returned after a pass of the loop of parseAttributes and one
\* of the loop of parseMedia, the input read to its end.
C17_Witness ==
  /\ Returned /\ phase = 1 /\ err = "nil" /\ rs = "" /\ slot = MediaSlot + 1
  /\ Len(file.Attributes) = 1 /\ Len(file.Medias) = 1
  /\ Len(LinesOf(input)) = Len(GoodHeader) + 2

=============================================================================
